---------------------------- MODULE Spec2Model ----------------------------
(***************************************************************************)
(* Cloud bucket browser (src/app.py): path/scheme utilities, the listing   *)
(* normaliser list_cloud, the chart-selection heuristic and the navigation *)
(* state kept in the session (prefix, scheme, fs, storage_options).        *)
(*                                                                         *)
(* A Python str is modelled as a sequence of one-character strings, so     *)
(* that strip / rstrip / split / startswith / lower act on characters.     *)
(***************************************************************************)
EXTENDS Integers, Sequences, FiniteSets, TLC

VARIABLES
    default_path,     \* st.session_state['default_path']  (<<>> when unset)
    prefix,           \* st.session_state['prefix']        (<<>> when unset)
    scheme,           \* st.session_state['scheme']        (<<>> when unset)
    fs,               \* st.session_state['fs']            (NoFs when unset)
    storage_options,  \* st.session_state['storage_options'] (NoOpts when unset)
    dirs,             \* the folder list the last script run rendered
    files,            \* the file list the last script run rendered
    reads,            \* per file the last run visualised: "ReadError" or "loaded"
    lsCalls,          \* fs.ls calls issued by the last script run
    readCalls,        \* read_any calls issued by the last script run
    lsFailed,         \* the last fs.ls call of the last run raised
    halted,           \* the last run ended in st.stop()
    last,             \* the user action that triggered the last run
    lsIn,             \* list_cloud as a function: its arguments ...
    lsOut,            \* ... and its result
    table,            \* chart selection as a function: the loaded table ...
    plan              \* ... and the plan selected for it

vars == <<default_path, prefix, scheme, fs, storage_options, dirs, files,
          reads, lsCalls, readCalls, lsFailed, halted, last,
          lsIn, lsOut, table, plan>>

navVars == <<default_path, prefix, scheme, fs, storage_options, dirs, files,
             reads, lsCalls, readCalls, lsFailed, halted, last>>

-----------------------------------------------------------------------------
(* Bounds of the model. *)

\* entries in one raw listing handed to the navigation actions
MaxItems == 1
\* entries in one raw listing handed to list_cloud checked as a function
MaxListing == 3
\* longest prefix (in characters) that open-folder may still extend
MaxPrefixLen == 7
\* columns of a loaded table
MaxCols == 4

-----------------------------------------------------------------------------
(* Python str primitives on character sequences. *)

Slash == "/"
Space == " "

\* ordinal of the characters the model uses (ASCII)
Ord(c) ==
    CASE c = " " -> 32 [] c = "." -> 46 [] c = "/" -> 47 [] c = "3" -> 51
      [] c = ":" -> 58 [] c = "C" -> 67 [] c = "L" -> 76 [] c = "S" -> 83
      [] c = "V" -> 86 [] c = "X" -> 88 [] c = "a" -> 97 [] c = "b" -> 98 [] c = "c" -> 99
      [] c = "d" -> 100 [] c = "e" -> 101 [] c = "g" -> 103 [] c = "k" -> 107
      [] c = "l" -> 108 [] c = "s" -> 115 [] c = "t" -> 116 [] c = "u" -> 117
      [] c = "v" -> 118 [] c = "x" -> 120 [] c = "y" -> 121

\* str.lower() on one character
LowerChar(c) ==
    CASE c = "C" -> "c" [] c = "L" -> "l" [] c = "S" -> "s" [] c = "V" -> "v"
      [] c = "X" -> "x" [] OTHER -> c

\* str.lower()
Lower(s) == [i \in 1..Len(s) |-> LowerChar(s[i])]

\* str.startswith
StartsWith(s, p) == Len(p) <= Len(s) /\ SubSeq(s, 1, Len(p)) = p

\* str.endswith
EndsWith(s, p) == Len(p) <= Len(s) /\ SubSeq(s, Len(s) - Len(p) + 1, Len(s)) = p

\* c in s
Contains(s, c) == \E i \in 1..Len(s) : s[i] = c

\* str.rstrip(c)
RECURSIVE RStrip(_, _)
RStrip(s, c) ==
    IF s # <<>> /\ s[Len(s)] = c THEN RStrip(SubSeq(s, 1, Len(s) - 1), c) ELSE s

\* str.lstrip(c)
RECURSIVE LStrip(_, _)
LStrip(s, c) ==
    IF s # <<>> /\ s[1] = c THEN LStrip(Tail(s), c) ELSE s

\* str.strip(c); str.strip() is Strip(s, Space)
Strip(s, c) == LStrip(RStrip(s, c), c)

\* index of the first c in s (s contains c)
FirstIndex(s, c) == CHOOSE i \in 1..Len(s) : s[i] = c /\ \A j \in 1..(i - 1) : s[j] # c

\* str.split(c): the pieces between the occurrences of c, empty pieces kept
RECURSIVE Split(_, _)
Split(s, c) ==
    IF ~Contains(s, c) THEN <<s>>
    ELSE LET i == FirstIndex(s, c)
         IN  <<SubSeq(s, 1, i - 1)>> \o Split(SubSeq(s, i + 1, Len(s)), c)

\* c.join(parts)
RECURSIVE Join(_, _)
Join(parts, c) ==
    IF parts = <<>> THEN <<>>
    ELSE IF Len(parts) = 1 THEN parts[1]
    ELSE parts[1] \o <<c>> \o Join(Tail(parts), c)

\* a < b on str (lexicographic by code point)
RECURSIVE StrLess(_, _)
StrLess(a, b) ==
    IF b = <<>> THEN FALSE
    ELSE IF a = <<>> THEN TRUE
    ELSE IF Ord(a[1]) < Ord(b[1]) THEN TRUE
    ELSE IF Ord(a[1]) > Ord(b[1]) THEN FALSE
    ELSE StrLess(Tail(a), Tail(b))

-----------------------------------------------------------------------------
(* Helpers of src/app.py. *)

S3 == <<"s", "3">>
GS == <<"g", "s">>
NoScheme == <<>>
S3Url == <<"s", "3", ":", "/", "/">>
GsUrl == <<"g", "s", ":", "/", "/">>
SchemeSep == <<":", "/", "/">>

ALLOWED_EXTS ==
    { <<".", "c", "s", "v">>, <<".", "x", "l", "s">>, <<".", "x", "l", "s", "x">> }

detect_scheme(url) ==
    IF url = <<>> THEN NoScheme
    ELSE IF StartsWith(url, S3Url) THEN S3
    ELSE IF StartsWith(url, GsUrl) THEN GS
    ELSE NoScheme

clean_prefix(path) ==
    IF path = <<>> THEN path
    ELSE RStrip(Strip(path, Space), Slash) \o <<Slash>>

\* strip_scheme(url) = <<scheme, without_scheme>>
strip_scheme(url) ==
    IF StartsWith(url, S3Url) THEN <<S3, SubSeq(url, Len(S3Url) + 1, Len(url))>>
    ELSE IF StartsWith(url, GsUrl) THEN <<GS, SubSeq(url, Len(GsUrl) + 1, Len(url))>>
    ELSE <<NoScheme, url>>

rebuild_url(sch, without_scheme) == sch \o SchemeSep \o without_scheme

basename_from_path(p) ==
    LET q == RStrip(p, Slash)
    IN  IF Contains(q, Slash) THEN Split(q, Slash)[Len(Split(q, Slash))] ELSE q

\* is_allowed_file without name.lower()
is_allowed_file_case_sensitive(name) == \E ext \in ALLOWED_EXTS : EndsWith(name, ext)

is_allowed_file(name) == \E ext \in ALLOWED_EXTS : EndsWith(Lower(name), ext)


\* session value of 'fs' / 'storage_options' before any connect
NoFs == [kind |-> NoScheme, cred |-> "none"]
NoOpts == [kind |-> NoScheme, anon |-> FALSE, key |-> FALSE, token |-> "none"]

\* What the sidebar hands to connect: the "Public (anonymous)" box, whether a
\* credential was entered (AWS key pair / service-account JSON; the inputs are
\* shown only when the box is unticked), and whether the process environment
\* has GOOGLE_APPLICATION_CREDENTIALS.
Auths ==
    { [public |-> TRUE,  creds |-> FALSE, env |-> FALSE],
      [public |-> FALSE, creds |-> TRUE,  env |-> FALSE],
      [public |-> FALSE, creds |-> FALSE, env |-> TRUE],
      [public |-> FALSE, creds |-> FALSE, env |-> FALSE] }

\* the token computed by the gs branch of the connect handler
gcs_token(auth) ==
    IF auth.public THEN "anon" ELSE IF auth.creds THEN "service_account" ELSE "google_default"

get_fs(sch, auth) ==
    IF sch = S3
    THEN IF auth.public THEN [kind |-> S3, cred |-> "anon"]
         ELSE IF auth.creds THEN [kind |-> S3, cred |-> "key"]
         ELSE [kind |-> S3, cred |-> "default"]
    ELSE [kind |-> GS, cred |-> gcs_token(auth)]

build_storage_options(sch, auth) ==
    IF sch = S3
    THEN [kind |-> S3, anon |-> auth.public, key |-> (~auth.public /\ auth.creds),
          token |-> "none"]
    ELSE [kind |-> GS, anon |-> auth.public, key |-> FALSE, token |-> gcs_token(auth)]

-----------------------------------------------------------------------------
(* list_cloud. A raw listing is [raises, items]: fs.ls raised, or the       *)
(* sequence of entries [name, type] it returned.                           *)

ItemIsDir(it) == it.type = "directory" \/ EndsWith(it.name, <<Slash>>)

\* rel of line 99
ItemRel(without, it) ==
    IF StartsWith(it.name, without)
    THEN SubSeq(it.name, Len(without) + 1, Len(it.name))
    ELSE it.name

\* the entry adds a path to dirs_set (lines 101-107)
ItemAddsDir(without, it) == ItemIsDir(it) \/ Contains(ItemRel(without, it), Slash)

\* the path it adds
ItemDir(sch, without, it) ==
    IF ItemIsDir(it)
    THEN rebuild_url(sch, RStrip(it.name, Slash) \o <<Slash>>)
    ELSE LET child == Split(ItemRel(without, it), Slash)[1]
         IN  rebuild_url(sch, RStrip(without, Slash) \o <<Slash>>
                                \o Strip(child, Slash) \o <<Slash>>)

\* the entry is appended to files (lines 108-111)
ItemAddsFile(sch, without, it) ==
    /\ ~ItemAddsDir(without, it)
    /\ is_allowed_file(rebuild_url(sch, it.name))

list_dirs_set(sch, pfx, items) ==
    LET without == strip_scheme(pfx)[2]
    IN  { ItemDir(sch, without, items[i]) :
            i \in { j \in 1..Len(items) : ItemAddsDir(without, items[j]) } }

\* files in listing order, before the sort
RECURSIVE list_files_raw(_, _, _)
list_files_raw(sch, pfx, items) ==
    IF items = <<>> THEN <<>>
    ELSE LET without == strip_scheme(pfx)[2]
             it == items[Len(items)]
             rest == list_files_raw(sch, pfx, SubSeq(items, 1, Len(items) - 1))
         IN  IF ItemAddsFile(sch, without, it)
             THEN Append(rest, rebuild_url(sch, it.name))
             ELSE rest

\* key=lambda x: x.lower()
KeyLeq(a, b) == ~StrLess(Lower(b), Lower(a))

\* list.sort(key=...): stable
RECURSIVE SortStable(_)
SortStable(sq) ==
    IF sq = <<>> THEN <<>>
    ELSE LET x == sq[Len(sq)]
             done == SortStable(SubSeq(sq, 1, Len(sq) - 1))
             k == Cardinality({ i \in 1..Len(done) : KeyLeq(done[i], x) })
         IN  SubSeq(done, 1, k) \o <<x>> \o SubSeq(done, k + 1, Len(done))

RECURSIVE PermSeqs(_)
PermSeqs(S) ==
    IF S = {} THEN { <<>> }
    ELSE UNION { { <<x>> \o p : p \in PermSeqs(S \ {x}) } : x \in S }

\* sorted(a_set, key=...): elements with equal keys come in the set's
\* iteration order, which the language does not fix
SortedSeqs(S) ==
    { sq \in PermSeqs(S) : \A i \in 1..(Len(sq) - 1) : KeyLeq(sq[i], sq[i + 1]) }

\* list_cloud whose except branch hands back the folder and file lists already
\* on screen instead of two empty lists
list_cloud_stale_on_error(sch, pfx, raw) ==
    IF raw.raises
    THEN { [failed |-> TRUE, dirs |-> dirs, files |-> files] }
    ELSE { [failed |-> FALSE, dirs |-> d,
            files |-> SortStable(list_files_raw(sch, pfx, raw.items))] :
           d \in SortedSeqs(list_dirs_set(sch, pfx, raw.items)) }

\* the results list_cloud can return for one raw listing
list_cloud(sch, pfx, raw) ==
    IF raw.raises
    THEN { [failed |-> TRUE, dirs |-> <<>>, files |-> <<>>] }
    ELSE { [failed |-> FALSE, dirs |-> d,
            files |-> SortStable(list_files_raw(sch, pfx, raw.items))] :
           d \in SortedSeqs(list_dirs_set(sch, pfx, raw.items)) }

-----------------------------------------------------------------------------
(* Chart selection (visualize handler, lines 294-304, and the plot helpers). *)
(* A table is [n, cols]: its row count and, per column in column order,     *)
(* [name, dtype, nunique]; dtype is "numeric" (is_numeric_dtype), "object"  *)
(* or "other" (datetime, category, ...).                                    *)

EXPECTED_TIME_SERIES == { "Frame Number", "Procrustes Similarity", "Joint Angle Distance" }

\* the 50 of max(50, int(len(df)*0.8))
LabelFloor == 50

ColumnNames(t) == { t.cols[i].name : i \in 1..Len(t.cols) }

IsNumericCol(c) == c.dtype = "numeric"

\* int(len(df)*0.8) without the floor of 50
label_threshold_no_floor(t) == (t.n * 8) \div 10

\* max(50, int(len(df)*0.8))
label_threshold(t) ==
    LET scaled == (t.n * 8) \div 10
    IN  IF scaled > LabelFloor THEN scaled ELSE LabelFloor

IsLabelCol(t, c) == c.dtype = "object" /\ c.nunique <= label_threshold(t)

\* [c for c in df.columns if is_numeric_dtype(df[c])]
num_cols(t) == SelectSeq(t.cols, IsNumericCol)

\* [c for c in df.columns if df[c].dtype == 'object' and df[c].nunique() <= ...]
cand_label_cols(t) ==
    LET keep(c) == IsLabelCol(t, c) IN SelectSeq(t.cols, keep)

NamesOf(cs) == [i \in 1..Len(cs) |-> cs[i].name]

MkPlan(kind, label, value, series, reason) ==
    [kind |-> kind, label |-> label, value |-> value, series |-> series, reason |-> reason]

plot_csv_line_chart(t) ==
    MkPlan("FixedLineChart", "Frame Number", "",
           <<"Procrustes Similarity", "Joint Angle Distance">>, "")

validate_and_plot_bar_interactive(t, label_col, stat_col) ==
    IF stat_col \notin ColumnNames(t) \/ label_col \notin ColumnNames(t)
    THEN MkPlan("NoChart", "", "", <<>>, "columns not found")
    ELSE IF ~\E i \in 1..Len(t.cols) : t.cols[i].name = stat_col /\ IsNumericCol(t.cols[i])
    THEN MkPlan("NoChart", "", "", <<>>, "column not numeric")
    ELSE MkPlan("InferredBarChart", label_col, stat_col, <<>>, "")

plot_generic_lines(t) ==
    IF num_cols(t) = <<>>
    THEN MkPlan("NoChart", "", "", <<>>, "no numeric columns")
    ELSE MkPlan("InferredLineChart", "", "", NamesOf(num_cols(t)), "")

\* lines 294-304
select_chart(t) ==
    IF EXPECTED_TIME_SERIES \subseteq ColumnNames(t)
    THEN plot_csv_line_chart(t)
    ELSE IF num_cols(t) # <<>> /\ cand_label_cols(t) # <<>>
    THEN validate_and_plot_bar_interactive(t, cand_label_cols(t)[1].name, num_cols(t)[1].name)
    ELSE plot_generic_lines(t)

\* Tables the model loads: the columns are a selection of at most MaxCols of
\* these names, in this order, each with any dtype and distinct-value count.
ColumnPool ==
    << "Frame Number", "Procrustes Similarity", "Joint Angle Distance", "Label", "Value" >>

RowCounts == { 10, 60, 100 }

\* distinct-value counts tried for a table of n rows: around max(50, 0.8 n)
DistinctCounts(n) == { k \in { 3, 50, 51, 80, 81 } : k <= n }

ColumnShapes(n) ==
    { [dtype |-> "numeric", nunique |-> n], [dtype |-> "other", nunique |-> n] }
    \cup { [dtype |-> "object", nunique |-> k] : k \in DistinctCounts(n) }

\* the elements of a set of numbers in increasing order
RECURSIVE Ascending(_)
Ascending(S) ==
    IF S = {} THEN <<>>
    ELSE LET m == CHOOSE x \in S : \A y \in S : x <= y
         IN  <<m>> \o Ascending(S \ {m})

Tables(maxCols) ==
    UNION { UNION { { [n |-> n,
                       cols |-> [i \in 1..Len(Ascending(S)) |->
                                   [name |-> ColumnPool[Ascending(S)[i]],
                                    dtype |-> sh[Ascending(S)[i]].dtype,
                                    nunique |-> sh[Ascending(S)[i]].nunique]]] :
                      sh \in [S -> ColumnShapes(n)] } :
                    S \in { T \in SUBSET (1..Len(ColumnPool)) : Cardinality(T) <= maxCols } } :
            n \in RowCounts }

NoPlan == MkPlan("none", "", "", <<>>, "")

-----------------------------------------------------------------------------
(* The script run. Streamlit reruns the whole script on every user action;  *)
(* one action of the model is one run, with at most one button pressed.     *)

\* URLs the user types into the "Bucket or prefix" box
ConnectUrls ==
    { <<"s", "3", ":", "/", "/", "b">>,
      <<"s", "3", ":", "/", "/", "b", "/", "x", "/", " ">>,
      <<"s", "3", ":", "/", "/", "b", "/", "/", "x">>,
      <<"s", "3", ":", "/", "/">>,
      <<"g", "s", ":", "/", "/", "b", "/", "x">>,
      <<"b", "/", "x">> }

\* Entries fs.ls may return for the body `without`: an allowed file, a
\* nested key, and a slash-terminated key two levels down.
NavEntries(without) ==
    { [name |-> without \o <<"x", ".", "c", "s", "v">>, type |-> "file"],
      [name |-> without \o <<"c", "/", "x">>, type |-> "file"],
      [name |-> without \o <<"c", "/", "d", "/">>, type |-> "file"] }

SeqsUpTo(S, n) == UNION { [1..k -> S] : k \in 0..n }

\* what fs.ls(without, detail=True) may do
NavRaws(pfx) ==
    { [raises |-> TRUE, items |-> <<>>] }
    \cup { [raises |-> FALSE, items |-> its] :
             its \in SeqsUpTo(NavEntries(strip_scheme(pfx)[2]), MaxItems) }

\* the results of list_cloud(fs, sch, pfx) over everything fs.ls may do
Listings(sch, pfx) == UNION { list_cloud(sch, pfx, raw) : raw \in NavRaws(pfx) }

\* line 231
current_scheme(schv, pfx) == IF schv = NoScheme THEN detect_scheme(pfx) ELSE schv

\* line 236, negated
IsConnected(fsv, pfx, schv) ==
    fsv # NoFs /\ pfx # <<>> /\ current_scheme(schv, pfx) # NoScheme

Connected == IsConnected(fs, prefix, scheme)

\* the main UI of the last run was drawn, so its buttons can be pressed
MainShown == Connected /\ ~halted

\* go_up without the single-segment floor: the last segment is always dropped
go_up_no_floor(pfx) ==
    LET sw == strip_scheme(pfx)
        parts == Split(RStrip(sw[2], Slash), Slash)
    IN  rebuild_url(sw[1], Join(SubSeq(parts, 1, Len(parts) - 1), Slash) \o <<Slash>>)

\* lines 244-251
go_up(pfx) ==
    LET sw == strip_scheme(pfx)
        parts == Split(RStrip(sw[2], Slash), Slash)
        new_without == IF Len(parts) > 1
                       THEN Join(SubSeq(parts, 1, Len(parts) - 1), Slash) \o <<Slash>>
                       ELSE parts[1] \o <<Slash>>
    IN  rebuild_url(sw[1], new_without)

\* folder_names / file_labels
Basenames(paths) == [i \in 1..Len(paths) |-> basename_from_path(paths[i])]

\* list.index
IndexOf(sq, x) == CHOOSE i \in 1..Len(sq) : sq[i] = x /\ \A j \in 1..(i - 1) : sq[j] # x

InSeq(sq, x) == \E i \in 1..Len(sq) : sq[i] = x

Show(o, calls) ==
    /\ dirs' = o.dirs
    /\ files' = o.files
    /\ lsFailed' = o.failed
    /\ lsCalls' = calls

ShowNothing ==
    /\ dirs' = <<>>
    /\ files' = <<>>
    /\ lsFailed' = FALSE
    /\ lsCalls' = 0

\* lines 236-256 when no button of the main UI is pressed
MainUI(fsv, pfx, schv) ==
    IF ~IsConnected(fsv, pfx, schv)
    THEN ShowNothing
    ELSE \E o \in Listings(current_scheme(schv, pfx), pfx) : Show(o, 1)

NoReads == reads' = <<>> /\ readCalls' = 0

pureVars == <<lsIn, lsOut, table, plan>>

\* the Connect button (lines 195-226), then the main UI
Connect(url, auth) ==
    LET sch == detect_scheme(url)
    IN  /\ last' = "connect"
        /\ NoReads
        /\ UNCHANGED pureVars
        /\ IF sch = NoScheme
           THEN /\ UNCHANGED <<default_path, prefix, scheme, fs, storage_options>>
                /\ halted' = FALSE
                /\ MainUI(fs, prefix, scheme)
           ELSE /\ default_path' = url
                /\ prefix' = clean_prefix(url)
                /\ IF sch = GS /\ ~auth.public /\ ~auth.creds /\ ~auth.env
                   THEN /\ UNCHANGED <<fs, scheme, storage_options>>
                        /\ halted' = TRUE
                        /\ ShowNothing
                   ELSE /\ fs' = get_fs(sch, auth)
                        /\ scheme' = sch
                        /\ storage_options' = build_storage_options(sch, auth)
                        /\ halted' = FALSE
                        /\ MainUI(get_fs(sch, auth), clean_prefix(url), sch)

\* editing a sidebar widget when the main UI is not drawn: a run with no
\* button pressed (with the main UI drawn, the run is that of Refresh)
Rerun ==
    /\ ~MainShown
    /\ last' = "rerun"
    /\ halted' = FALSE
    /\ NoReads
    /\ UNCHANGED <<default_path, prefix, scheme, fs, storage_options>>
    /\ UNCHANGED pureVars
    /\ MainUI(fs, prefix, scheme)

\* the Refresh button (lines 253-256)
Refresh ==
    /\ MainShown
    /\ last' = "refresh"
    /\ halted' = FALSE
    /\ NoReads
    /\ UNCHANGED <<default_path, prefix, scheme, fs, storage_options>>
    /\ UNCHANGED pureVars
    /\ MainUI(fs, prefix, scheme)

\* the "Go up one level" button (lines 244-256)
GoUp ==
    /\ MainShown
    /\ last' = "goUp"
    /\ halted' = FALSE
    /\ NoReads
    /\ UNCHANGED <<default_path, scheme, fs, storage_options>>
    /\ UNCHANGED pureVars
    /\ prefix' = go_up(prefix)
    /\ \E o \in Listings(current_scheme(scheme, prefix), go_up(prefix)) : Show(o, 1)

\* "Open selected folder" with `label` chosen in the selectbox (lines 256-267)
OpenFolder(label) ==
    /\ MainShown
    /\ InSeq(Basenames(dirs), label)
    /\ Len(prefix) <= MaxPrefixLen
    /\ last' = "openFolder"
    /\ halted' = FALSE
    /\ NoReads
    /\ UNCHANGED <<default_path, scheme, fs, storage_options>>
    /\ UNCHANGED pureVars
    /\ \E o1 \in Listings(current_scheme(scheme, prefix), prefix) :
         IF InSeq(Basenames(o1.dirs), label)
         THEN LET target == o1.dirs[IndexOf(Basenames(o1.dirs), label)]
              IN  /\ prefix' = target
                  /\ \E o2 \in Listings(current_scheme(scheme, prefix), target) : Show(o2, 2)
         ELSE /\ prefix' = prefix
              /\ Show(o1, 1)

\* read_any(fp) raises, or returns a table (lines 286-290)
ReadOutcomes == { "ReadError", "loaded" }

\* the non-empty sequences of distinct elements of S
Selections(S) == UNION { PermSeqs(T) : T \in (SUBSET S) \ {{}} }

SetOf(sq) == { sq[i] : i \in 1..Len(sq) }

\* "Load and visualize" with the labels `sel` ticked (lines 256, 271-290);
\* the chart drawn for a loaded table is select_chart
Visualize(sel) ==
    /\ MainShown
    /\ sel \in Selections(SetOf(Basenames(files)))
    /\ last' = "visualize"
    /\ halted' = FALSE
    /\ UNCHANGED <<default_path, prefix, scheme, fs, storage_options>>
    /\ UNCHANGED pureVars
    /\ \E o1 \in Listings(current_scheme(scheme, prefix), prefix) :
         /\ Show(o1, 1)
         /\ LET file_labels == Basenames(o1.files)
                isOption(lbl) == InSeq(file_labels, lbl)
                selected_labels == SelectSeq(sel, isOption)
                picked == [i \in 1..Len(selected_labels) |->
                             o1.files[IndexOf(file_labels, selected_labels[i])]]
                selected_files == SubSeq(picked, 1, IF Len(picked) < 2 THEN Len(picked) ELSE 2)
            IN  /\ readCalls' = Len(selected_files)
                /\ reads' \in [1..Len(selected_files) -> ReadOutcomes]

NavInit ==
    /\ default_path = <<>>
    /\ prefix = <<>>
    /\ scheme = NoScheme
    /\ fs = NoFs
    /\ storage_options = NoOpts
    /\ dirs = <<>>
    /\ files = <<>>
    /\ reads = <<>>
    /\ lsCalls = 0
    /\ readCalls = 0
    /\ lsFailed = FALSE
    /\ halted = FALSE
    /\ last = "start"

Init ==
    /\ NavInit
    /\ lsIn = [scheme |-> NoScheme, prefix |-> <<>>, raw |-> [raises |-> FALSE, items |-> <<>>]]
    /\ lsOut = [done |-> FALSE, failed |-> FALSE, dirs |-> <<>>, files |-> <<>>]
    /\ table = [n |-> 0, cols |-> <<>>]
    /\ plan = NoPlan

Next ==
    \/ \E url \in ConnectUrls, auth \in Auths : Connect(url, auth)
    \/ Rerun
    \/ Refresh
    \/ GoUp
    \/ \E label \in SetOf(Basenames(dirs)) : OpenFolder(label)
    \/ \E sel \in Selections(SetOf(Basenames(files))) : Visualize(sel)

Spec == Init /\ [][Next]_vars

-----------------------------------------------------------------------------
(* list_cloud as a function: SpecListing draws (scheme, prefix, raw listing) *)
(* in its initial states and applies list_cloud to it.                       *)

LsPrefixes == { <<"s", "3", ":", "/", "/", "b", "u", "c", "k", "e", "t", "/", "a", "/">>,
                <<"g", "s", ":", "/", "/", "b", "/">>,
                <<"s", "3", ":", "/", "/", "b", "/", "/">> }

\* Entries of the raw listings: keys below the queried body (a file, a nested
\* key, a file with another extension, an upper-case extension, a nested key
\* under an upper-case folder, an explicit directory, a key with an empty first
\* segment) and keys that do not start with the queried body.
LsEntries(without) ==
    { [name |-> without \o <<"b", ".", "c", "s", "v">>, type |-> "file"],
      [name |-> without \o <<"c", "/", "d", ".", "c", "s", "v">>, type |-> "file"],
      [name |-> without \o <<"e", ".", "t", "x", "t">>, type |-> "file"],
      [name |-> without \o <<"b", ".", "X", "L", "S">>, type |-> "file"],
      [name |-> without \o <<"C", "/", "y", ".", "x", "l", "s", "x">>, type |-> "file"],
      [name |-> without \o <<"c">>, type |-> "directory"],
      [name |-> without \o <<"/", "x", ".", "c", "s", "v">>, type |-> "file"],
      [name |-> <<"a", "/", "b", ".", "c", "s", "v">>, type |-> "file"],
      [name |-> <<"a", "/", "c", "/", "d", ".", "c", "s", "v">>, type |-> "file"],
      [name |-> <<"a", "/", "e", ".", "t", "x", "t">>, type |-> "file"] }

LsInputs ==
    UNION { { [scheme |-> detect_scheme(pfx), prefix |-> pfx, raw |-> raw] :
              raw \in { [raises |-> TRUE, items |-> <<>>] }
                      \cup { [raises |-> FALSE, items |-> its] :
                               its \in SeqsUpTo(LsEntries(strip_scheme(pfx)[2]), MaxListing) } } :
            pfx \in LsPrefixes }

LsPending == [done |-> FALSE, failed |-> FALSE, dirs |-> <<>>, files |-> <<>>]

InitListing ==
    /\ NavInit
    /\ lsIn \in LsInputs
    /\ lsOut = LsPending
    /\ table = [n |-> 0, cols |-> <<>>]
    /\ plan = NoPlan

\* dirs, files = list_cloud(fs, scheme, prefix)
ListCloud ==
    /\ ~lsOut.done
    /\ \E o \in list_cloud(lsIn.scheme, lsIn.prefix, lsIn.raw) :
         lsOut' = [done |-> TRUE, failed |-> o.failed, dirs |-> o.dirs, files |-> o.files]
    /\ UNCHANGED <<lsIn, table, plan>>
    /\ UNCHANGED navVars

NextListing == ListCloud

SpecListing == InitListing /\ [][NextListing]_vars

-----------------------------------------------------------------------------
(* Chart selection as a function: SpecChart draws the loaded table in its    *)
(* initial states and applies the selection of lines 294-304 to it.          *)

InitChart ==
    /\ NavInit
    /\ lsIn = [scheme |-> NoScheme, prefix |-> <<>>, raw |-> [raises |-> FALSE, items |-> <<>>]]
    /\ lsOut = LsPending
    /\ table \in Tables(MaxCols)
    /\ plan = NoPlan

SelectChart ==
    /\ plan = NoPlan
    /\ plan' = select_chart(table)
    /\ UNCHANGED <<lsIn, lsOut, table>>
    /\ UNCHANGED navVars

NextChart == SelectChart

SpecChart == InitChart /\ [][NextChart]_vars

-----------------------------------------------------------------------------
(* Vocabulary of the properties, stated on the characters of a path and     *)
(* not through the helpers above.                                           *)

SlashPositions(body) == { i \in 1..Len(body) : body[i] = Slash }

\* body is s1/s2/.../sk/ with k >= 1 segments, none of them empty
IsSegmentPath(body) ==
    /\ body # <<>>
    /\ body[1] # Slash
    /\ body[Len(body)] = Slash
    /\ \A i \in 1..(Len(body) - 1) : ~(body[i] = Slash /\ body[i + 1] = Slash)

SegmentCount(body) == Cardinality(SlashPositions(body))

\* s1, the bucket name
BucketOf(body) ==
    LET first == CHOOSE i \in SlashPositions(body) : \A j \in SlashPositions(body) : i <= j
    IN  SubSeq(body, 1, first - 1)

\* s1/.../s(k-1)/ for k > 1, and s1/ for k = 1
ParentBody(body) ==
    IF SegmentCount(body) = 1 THEN body
    ELSE LET cut == CHOOSE i \in SlashPositions(body) :
                      i < Len(body) /\ \A j \in SlashPositions(body) : j < Len(body) => j <= i
         IN  SubSeq(body, 1, cut)

\* p is scheme://s1/.../sk/ for a supported scheme
IsDirUrl(p) ==
    \E sch \in {S3Url, GsUrl} :
        /\ Len(p) > Len(sch)
        /\ SubSeq(p, 1, Len(sch)) = sch
        /\ IsSegmentPath(SubSeq(p, Len(sch) + 1, Len(p)))

UrlHead(p) == SubSeq(p, 1, 5)
UrlBody(p) == SubSeq(p, 6, Len(p))

RECURSIVE GoUpTimes(_, _)
GoUpTimes(p, n) == IF n = 0 THEN p ELSE GoUpTimes(go_up(p), n - 1)

NoDuplicates(sq) == \A i, j \in 1..Len(sq) : sq[i] = sq[j] => i = j

-----------------------------------------------------------------------------
(* Properties. *)

\* C1: a connect attempt that stops on a configuration error leaves the stored
\* prefix, scheme and accessor exactly as they were before the attempt.
C1_FailedConnectKeepsState ==
    [][halted' => (prefix' = prefix /\ scheme' = scheme /\ fs' = fs)]_vars

\* C2: goUp on a prefix scheme://s1/.../sk/ (k >= 1) yields scheme://s1/.../s(k-1)/
\* when k > 1 and leaves scheme://s1/ as it is when k = 1; the state stays
\* Connected, the bucket name s1 is kept, k-1 goUp steps reach scheme://s1/
\* and goUp there changes nothing.
C2_GoUp ==
    [][(last' = "goUp" /\ IsDirUrl(prefix)) =>
         /\ prefix' = UrlHead(prefix) \o ParentBody(UrlBody(prefix))
         /\ IsDirUrl(prefix')
         /\ BucketOf(UrlBody(prefix')) = BucketOf(UrlBody(prefix))
         /\ Connected'
         /\ LET root == UrlHead(prefix) \o BucketOf(UrlBody(prefix)) \o <<Slash>>
            IN  /\ GoUpTimes(prefix, SegmentCount(UrlBody(prefix)) - 1) = root
                /\ go_up(root) = root]_vars

\* goUp has taken s3://b/x/ to s3://b/
C2_Witness ==
    /\ last = "goUp"
    /\ default_path = <<"s", "3", ":", "/", "/", "b", "/", "x", "/", " ">>
    /\ prefix = <<"s", "3", ":", "/", "/", "b", "/">>


\* the listing is sorted by lower-cased path
SortedByLower(sq) == \A i \in 1..(Len(sq) - 1) : ~StrLess(Lower(sq[i + 1]), Lower(sq[i]))

\* child is parent + one non-empty segment + '/'
IsChildDir(parent, child) ==
    /\ Len(child) > Len(parent) + 1
    /\ SubSeq(child, 1, Len(parent)) = parent
    /\ SlashPositions(SubSeq(child, Len(parent) + 1, Len(child))) = { Len(child) - Len(parent) }

\* child is parent + a non-empty name without '/'
IsChildFile(parent, child) ==
    /\ Len(child) > Len(parent)
    /\ SubSeq(child, 1, Len(parent)) = parent
    /\ SlashPositions(SubSeq(child, Len(parent) + 1, Len(child))) = {}

\* C4: the view holds only immediate children of the current prefix: every
\* folder is prefix + one non-empty segment + '/', every file is prefix + a
\* name without '/'. (Stated for prefixes scheme://s1/.../sk/ whose scheme is
\* the stored one.)
C4_OnlyImmediateChildren ==
    (Connected /\ IsDirUrl(prefix) /\ UrlHead(prefix) = scheme \o SchemeSep) =>
        /\ \A i \in 1..Len(dirs) : IsChildDir(prefix, dirs[i])
        /\ \A i \in 1..Len(files) : IsChildFile(prefix, files[i])

\* C5: for every raw listing, the folder list and the file list list_cloud
\* returns are duplicate-free and sorted case-insensitively by full path.
C5_DeduplicatedSorted ==
    lsOut.done =>
        /\ NoDuplicates(lsOut.dirs)
        /\ NoDuplicates(lsOut.files)
        /\ SortedByLower(lsOut.dirs)
        /\ SortedByLower(lsOut.files)

\* C7: when fs.ls raises during refresh, prefix, scheme and accessor are
\* unchanged, both lists are empty, the state is still Connected and the main
\* UI (go up, refresh) is still offered.
C7_ListErrorNonFatal ==
    [][(last' = "refresh" /\ lsFailed') =>
         /\ prefix' = prefix
         /\ scheme' = scheme
         /\ fs' = fs
         /\ storage_options' = storage_options
         /\ dirs' = <<>>
         /\ files' = <<>>
         /\ Connected'
         /\ MainShown']_vars

\* a refresh whose listing failed, on a screen that had shown a folder
C7_Witness == last = "refresh" /\ lsFailed /\ Connected /\ dirs = <<>> /\ prefix = <<"s", "3", ":", "/", "/", "b", "/", "c", "/">>

\* C8: one user action issues at most one listing or read call.
C8_AtMostOneCall == lsCalls + readCalls <= 1

\* C9: in every Connected state the stored prefix is non-empty and ends with
\* exactly one '/'.
C9_PrefixIsDirectory ==
    Connected =>
        /\ prefix # <<>>
        /\ prefix[Len(prefix)] = Slash
        /\ Len(prefix) >= 2 => prefix[Len(prefix) - 1] # Slash

\* C10: in every Connected state the prefix starts with '<stored scheme>://'
\* followed by a non-empty bucket name, and the accessor is the one built for
\* the stored scheme.
C10_StateAgrees ==
    Connected =>
        /\ scheme \in {S3, GS}
        /\ StartsWith(prefix, scheme \o SchemeSep)
        /\ Len(prefix) > Len(scheme \o SchemeSep)
        /\ prefix[Len(scheme \o SchemeSep) + 1] # Slash
        /\ fs.kind = scheme


-----------------------------------------------------------------------------
(* Listing normalisation, stated on the raw entries. *)

\* the entry is a directory entry: marked so, or its path ends with '/'
IsDirEntry(e) == e.type = "directory" \/ (e.name # <<>> /\ e.name[Len(e.name)] = Slash)

\* the entry's path with P removed, the whole path when it does not start with P
RelOf(P, e) ==
    IF Len(e.name) >= Len(P) /\ \A i \in 1..Len(P) : e.name[i] = P[i]
    THEN [i \in 1..(Len(e.name) - Len(P)) |-> e.name[i + Len(P)]]
    ELSE e.name

\* the first segment of a rel that contains '/'
FirstSegment(rel) ==
    LET first == CHOOSE i \in SlashPositions(rel) : \A j \in SlashPositions(rel) : i <= j
    IN  [i \in 1..(first - 1) |-> rel[i]]

\* x with its run of trailing '/' replaced by a single '/'
OneTrailingSlash(x) ==
    LET n == CHOOSE k \in 0..Len(x) :
               /\ \A i \in (k + 1)..Len(x) : x[i] = Slash
               /\ k > 0 => x[k] # Slash
    IN  [i \in 1..(n + 1) |-> IF i <= n THEN x[i] ELSE Slash]

SameLetter(c, d) ==
    \/ c = d
    \/ <<c, d>> \in { <<"C", "c">>, <<"S", "s">>, <<"V", "v">>, <<"X", "x">>, <<"L", "l">> }

\* name ends in .csv, .xls or .xlsx, whatever the case of its letters
IsTabularName(name) ==
    \E ext \in { <<".", "c", "s", "v">>, <<".", "x", "l", "s">>, <<".", "x", "l", "s", "x">> } :
        /\ Len(name) >= Len(ext)
        /\ \A j \in 1..Len(ext) : SameLetter(name[Len(name) - Len(ext) + j], ext[j])

\* The result lsOut classifies the entries of lsIn, with `home` the path under
\* which inferred folders are placed: a non-directory entry whose rel contains
\* '/' adds only home + first segment + '/'; one whose rel has no '/' is a file
\* iff its name is tabular; and the two sets hold nothing else.
Classifies(home) ==
    LET head == UrlHead(lsIn.prefix)
        P == UrlBody(lsIn.prefix)
        items == lsIn.raw.items
        D == SetOf(lsOut.dirs)
        F == SetOf(lsOut.files)
        inferred(e) == head \o home \o FirstSegment(RelOf(P, e)) \o <<Slash>>
        nested(e) == ~IsDirEntry(e) /\ SlashPositions(RelOf(P, e)) # {}
        flat(e) == ~IsDirEntry(e) /\ SlashPositions(RelOf(P, e)) = {}
    IN  /\ \A i \in 1..Len(items) :
              /\ nested(items[i]) =>
                    (inferred(items[i]) \in D /\ head \o items[i].name \notin F)
              /\ flat(items[i]) =>
                    (head \o items[i].name \in F <=> IsTabularName(items[i].name))
        /\ \A d \in D : \E i \in 1..Len(items) :
              \/ IsDirEntry(items[i]) /\ d = head \o OneTrailingSlash(items[i].name)
              \/ nested(items[i]) /\ d = inferred(items[i])
        /\ \A f \in F : \E i \in 1..Len(items) :
              flat(items[i]) /\ IsTabularName(items[i].name) /\ f = head \o items[i].name

ExamplePrefix == <<"s", "3", ":", "/", "/", "b", "u", "c", "k", "e", "t", "/", "a", "/">>

\* the entries of the example as the specification writes them
ExampleItemsAsWritten ==
    << [name |-> <<"a", "/", "b", ".", "c", "s", "v">>, type |-> "file"],
       [name |-> <<"a", "/", "c", "/", "d", ".", "c", "s", "v">>, type |-> "file"],
       [name |-> <<"a", "/", "e", ".", "t", "x", "t">>, type |-> "file"] >>

\* the same keys with the bucket name in front, as fs.ls returns them
ExampleItemsQualified ==
    << [name |-> <<"b", "u", "c", "k", "e", "t", "/", "a", "/", "b", ".", "c", "s", "v">>, type |-> "file"],
       [name |-> <<"b", "u", "c", "k", "e", "t", "/", "a", "/", "c", "/", "d", ".", "c", "s", "v">>, type |-> "file"],
       [name |-> <<"b", "u", "c", "k", "e", "t", "/", "a", "/", "e", ".", "t", "x", "t">>, type |-> "file"] >>

ExampleResult ==
    /\ lsOut.dirs = << <<"s", "3", ":", "/", "/", "b", "u", "c", "k", "e", "t", "/", "a", "/", "c", "/">> >>
    /\ lsOut.files = << <<"s", "3", ":", "/", "/", "b", "u", "c", "k", "e", "t", "/", "a", "/", "b", ".", "c", "s", "v">> >>

ListingDone == lsOut.done /\ ~lsOut.failed

\* C3 (as stated, at the prefix bucket/a/ of its example): inferred folders are
\* P + first segment + '/', files are the tabular names, and the entries
\* a/b.csv, a/c/d.csv, a/e.txt give folders {bucket/a/c/} and files
\* {bucket/a/b.csv}.
C3_AsStated ==
    (ListingDone /\ lsIn.prefix = ExamplePrefix) =>
        /\ Classifies(UrlBody(lsIn.prefix))
        /\ lsIn.raw.items = ExampleItemsAsWritten => ExampleResult

\* C3 (amended): inferred folders are P, its trailing '/' run reduced to one,
\* + first segment + '/'; files are the tabular names; and the entries
\* bucket/a/b.csv, bucket/a/c/d.csv, bucket/a/e.txt under bucket/a/ give
\* folders {bucket/a/c/} and files {bucket/a/b.csv}.
C3_Classification ==
    ListingDone =>
        /\ Classifies(OneTrailingSlash(UrlBody(lsIn.prefix)))
        /\ (lsIn.prefix = ExamplePrefix /\ lsIn.raw.items = ExampleItemsQualified)
              => ExampleResult

\* list_cloud has normalised the bucket-qualified example
C3_Witness ==
    /\ ListingDone
    /\ lsIn.prefix = ExamplePrefix
    /\ lsIn.raw.items = ExampleItemsQualified
    /\ ExampleResult

-----------------------------------------------------------------------------
(* Chart selection, stated on the table. *)

ColumnIndexes(t) == 1..Len(t.cols)
NumericIndexes(t) == { i \in ColumnIndexes(t) : t.cols[i].dtype = "numeric" }

\* text columns with distinct-count <= max(50, 0.8 n)
LabelIndexes(t) ==
    { i \in ColumnIndexes(t) :
        /\ t.cols[i].dtype = "object"
        /\ (t.cols[i].nunique <= 50 \/ 10 * t.cols[i].nunique <= 8 * t.n) }

Least(S) == CHOOSE i \in S : \A j \in S : i <= j

HasTimeSeriesColumns(t) ==
    \A nm \in { "Frame Number", "Procrustes Similarity", "Joint Angle Distance" } :
        \E i \in ColumnIndexes(t) : t.cols[i].name = nm

\* C6: the plan chosen for a table is FixedLineChart when the three
\* time-series columns are present; else InferredBarChart(first label column,
\* first numeric column) when both kinds exist; else InferredLineChart over
\* all numeric columns when one exists; else NoChart. One of the four is always
\* produced.
C6_ChartSelection ==
    plan # NoPlan =>
        /\ plan.kind \in { "FixedLineChart", "InferredBarChart", "InferredLineChart", "NoChart" }
        /\ IF HasTimeSeriesColumns(table)
           THEN plan.kind = "FixedLineChart"
           ELSE IF NumericIndexes(table) # {} /\ LabelIndexes(table) # {}
           THEN /\ plan.kind = "InferredBarChart"
                /\ plan.label = table.cols[Least(LabelIndexes(table))].name
                /\ plan.value = table.cols[Least(NumericIndexes(table))].name
           ELSE IF NumericIndexes(table) # {}
           THEN /\ plan.kind = "InferredLineChart"
                /\ Len(plan.series) = Cardinality(NumericIndexes(table))
                /\ \A i \in 1..Len(plan.series) :
                      \E j \in NumericIndexes(table) :
                          /\ plan.series[i] = table.cols[j].name
                          /\ Cardinality({ k \in NumericIndexes(table) : k <= j }) = i
           ELSE plan.kind = "NoChart"

\* a bar chart whose label column comes after a text column with too many
\* distinct values and whose value column is not the first column
C6_Witness ==
    /\ plan.kind = "InferredBarChart"
    /\ \E i \in ColumnIndexes(table) :
          /\ table.cols[i].dtype = "object"
          /\ i \notin LabelIndexes(table)
          /\ i < Least(LabelIndexes(table))
    /\ Least(NumericIndexes(table)) > 1

=============================================================================
